---- MODULE Spec2Model ----
(***************************************************************************)
(* Model of the double-buffered voxel edit pipeline of bevy-building-blocks *)
(* (VoxelMap, ThreadLocalVoxelCache, EditBuffer, DirtyChunks and the four   *)
(* systems MapIoPlugin adds to stage::LAST).                                *)
(*                                                                          *)
(* Points are triples <<x, y, z>>.  A chunk key is the chunk-space          *)
(* coordinate of a chunk (world coordinate floor-divided by the chunk       *)
(* shape).  A chunk array is a function from the world points of the        *)
(* chunk's extent to voxel values.                                          *)
(***************************************************************************)
EXTENDS Integers, Sequences, FiniteSets, TLC

\* ------------------------------------------------------------------ bounds
\* Side length of a (cubic) chunk, in voxels.
ChunkShape == 2
\* Number of distinct voxel values; a voxel is its type index.
NumVoxelTypes == 3
\* Number of worker threads that own a thread-local cache.
NumWorkers == 2
\* Frames (cycles) the model runs.
MaxFrames == 2
\* Editor calls (edit_extent / insert_chunk) and direct writes over the whole run.
MaxEdits == 2
\* Budget of the shared cache, in decompressed chunks.
MaxCachedChunks == 1
MaxDirectWrites == 1

\* V::default()
AmbientValue == 0

Voxel == 0..(NumVoxelTypes - 1)
Workers == 1..NumWorkers

\* ------------------------------------------------- points, extents, keys
PointAdd(p, q) == <<p[1] + q[1], p[2] + q[2], p[3] + q[3]>>
PointSub(p, q) == <<p[1] - q[1], p[2] - q[2], p[3] - q[3]>>
PointN(c) == <<c, c, c>>

\* Extent3i::from_min_and_shape
from_min_and_shape(minimum, shape) == [minimum |-> minimum, shape |-> shape]
\* Extent3i::max: the largest point of the extent (inclusive).
ExtentMax(e) == PointSub(PointAdd(e.minimum, e.shape), PointN(1))
\* Extent3i::from_min_and_max
from_min_and_max(minimum, max) ==
    [minimum |-> minimum, shape |-> PointAdd(PointSub(max, minimum), PointN(1))]
\* The points an extent holds.
ExtentPoints(e) ==
    {<<x, y, z>> : x \in e.minimum[1]..ExtentMax(e)[1],
                   y \in e.minimum[2]..ExtentMax(e)[2],
                   z \in e.minimum[3]..ExtentMax(e)[3]}

\* The extent holds the point p.
ExtentContains(e, p) ==
    \A i \in 1..3 : e.minimum[i] <= p[i] /\ p[i] < e.minimum[i] + e.shape[i]

\* The chunk shape as a point.
chunk_shape == PointN(ChunkShape)

\* Key of the chunk holding point p (floor division by the chunk shape).
chunk_key_containing_point(p) ==
    <<p[1] \div ChunkShape, p[2] \div ChunkShape, p[3] \div ChunkShape>>

\* Keys of every chunk that overlaps the extent.
chunk_keys_for_extent(e) ==
    LET lo == chunk_key_containing_point(e.minimum)
        hi == chunk_key_containing_point(ExtentMax(e))
    IN {<<x, y, z>> : x \in lo[1]..hi[1], y \in lo[2]..hi[2], z \in lo[3]..hi[3]}

\* World extent of the chunk at a key.
extent_for_chunk_at_key(key) ==
    from_min_and_shape(<<key[1] * ChunkShape, key[2] * ChunkShape, key[3] * ChunkShape>>,
                       chunk_shape)

\* Array3::fill
ArrayFill(e, v) == [p \in ExtentPoints(e) |-> v]
\* default_array: an array of V::default() over the extent.
default_array(e) == ArrayFill(e, AmbientValue)

\* A function with one more (or one overwritten) entry.
MapInsert(f, k, v) == [x \in (DOMAIN f) \cup {k} |-> IF x = k THEN v ELSE f[x]]
\* A function without the entries at keys ks.
MapRemove(f, ks) == [x \in (DOMAIN f) \ ks |-> f[x]]
EmptyMap == [x \in {} |-> 0]

\* Value a chunk map (key -> array) holds at point p: the chunk's voxel, or
\* the ambient value where no chunk is stored.
GetVoxel(chunks, p) ==
    LET key == chunk_key_containing_point(p)
    IN IF key \in DOMAIN chunks THEN chunks[key][p] ELSE AmbientValue

\* Every sequence that lists each element of S exactly once.
Orderings(S) ==
    {s \in [1..Cardinality(S) -> S] : \A i, j \in 1..Cardinality(S) : s[i] = s[j] => i = j}

SeqRange(s) == {s[i] : i \in 1..Len(s)}
\* The sequence s without the elements of ks, order kept.
SeqWithout(s, ks) == SelectSeq(s, LAMBDA x : x \notin ks)


\* ------------------------------------------------------------------ state
VARIABLES
    voxel_map,      \* VoxelMap.voxels: [chunks, compressed, lru]
    local_caches,   \* ThreadLocalVoxelCache: worker -> [store, accesses]
    edit_buffer,    \* EditBuffer: [edited_voxels, dirty_chunk_keys, copies]
    dirty_chunks,   \* DirtyChunks: [edited_chunk_keys, dirty_chunk_keys]
    stage,          \* 0: user systems run; i in 1..4: LastStageSystems[i] runs
                    \* next; 5: every system of stage::LAST has run
    ran,            \* the stage::LAST systems run so far in this frame
    frame,          \* frames completed
    calls,          \* editor calls and direct writes made so far
    staged,         \* history: the editor calls of this frame, in call order
    flushed_keys,   \* history: the keys whose locally decompressed copy this
                    \* frame's flush put into the shared cache
    at_last_merge,  \* history: the store's chunks as the last merge left them
    before_merge,   \* history: the store's chunks as the last merge of an
                    \* earlier frame left them (as built, in the first frame)
    buffer_chunk_shape, \* the chunk shape EditBuffer::new was given
    assert_failed,  \* the debug_assert of edit_voxels_out_of_place has failed
    bypass          \* direct writes into the VoxelMap resource: [writes,
                    \* buffered, cached, recopied, base]; `writes` counts
                    \* them, the rest is history of this frame: the keys
                    \* written while the edit buffer held them, while a
                    \* thread-local cache held them, and the latter that the
                    \* edit buffer copied after the write; `base` is the
                    \* store's chunks as the frame found them, with the
                    \* direct writes made to chunks that neither held

vars == <<voxel_map, local_caches, edit_buffer, dirty_chunks, stage, ran, frame,
          calls, staged, flushed_keys, at_last_merge, before_merge,
          buffer_chunk_shape, assert_failed, bypass>>

\* VoxelMap.voxels is a ChunkMap3 over a compressible map: `chunks` holds
\* every stored chunk's array, `compressed` the keys whose live
\* representation is the compressed one, `lru` the decompressed keys from
\* least to most recently used.
ChunkMap(chunks, compressed, lru) ==
    [chunks |-> chunks, compressed |-> compressed, lru |-> lru]

\* default_chunk_map: an empty chunk map.
default_chunk_map == ChunkMap(EmptyMap, {}, <<>>)

\* LocalChunkCache3::new
NewLocalCache == [store |-> EmptyMap, accesses |-> {}]
\* ThreadLocalVoxelCache::new
NewThreadLocalVoxelCache == [w \in Workers |-> NewLocalCache]

\* EditBuffer::new.  `copies` counts, per key, how often the closure of
\* get_or_insert_with ran (a chunk was copied from upstream or default-filled).
EditBufferNew ==
    [edited_voxels |-> EmptyMap, dirty_chunk_keys |-> {}, copies |-> EmptyMap]

\* DirtyChunks::default
DirtyChunksDefault == [edited_chunk_keys |-> <<>>, dirty_chunk_keys |-> {}]

\* Mutant of LastStageSystems: the edits are merged before the local caches
\* are flushed.
LastStageSystems_merge_before_flush ==
    <<"double_buffering_system", "chunk_cache_flusher_system",
      "empty_chunk_remover_system", "chunk_compressor_system">>

\* Mutant of LastStageSystems: the empty chunks are removed after the merge.
LastStageSystems_remove_after_merge ==
    <<"chunk_cache_flusher_system", "double_buffering_system",
      "empty_chunk_remover_system", "chunk_compressor_system">>

\* Mutant of LastStageSystems: the cache is compressed before the merge.
LastStageSystems_compress_before_merge ==
    <<"chunk_cache_flusher_system", "empty_chunk_remover_system",
      "chunk_compressor_system", "double_buffering_system">>

\* Mutant of LastStageSystems: the empty chunk remover is not added.
LastStageSystems_without_remover ==
    <<"chunk_cache_flusher_system", "double_buffering_system",
      "chunk_compressor_system">>

\* Mutant of LastStageSystems: the chunk compressor is not added.
LastStageSystems_without_compressor ==
    <<"chunk_cache_flusher_system", "empty_chunk_remover_system",
      "double_buffering_system">>

\* The systems MapIoPlugin::build adds to stage::LAST, in the order added.
\* All of them take the VoxelMap mutably, so the executor runs them one at a
\* time in this order.
LastStageSystems ==
    <<"chunk_cache_flusher_system", "empty_chunk_remover_system",
      "double_buffering_system", "chunk_compressor_system">>

\* ----------------------------------------------------------------- inputs
\* A one-voxel extent in chunk (0,0,0), next to the chunk's +x face.
ExtentA == from_min_and_shape(<<ChunkShape - 1, 1, 1>>, <<1, 1, 1>>)
\* A two-voxel extent that overlaps ExtentA and crosses into chunk (1,0,0).
ExtentB == from_min_and_shape(<<ChunkShape - 1, 1, 1>>, <<2, 1, 1>>)
EditExtents == {ExtentA, ExtentB}

EditFuncs == {"set_one", "increment"}
\* The edit closure, called with the point and the voxel.
ApplyEditFunc(f, p, v) ==
    CASE f = "set_one" -> 1
      [] f = "increment" -> (v + 1) % NumVoxelTypes

InsertKeys == {<<0, 0, 0>>}
\* Arrays a caller hands to insert_chunk for a key.
InsertArrays(key) ==
    {ArrayFill(extent_for_chunk_at_key(key), NumVoxelTypes - 1),
     default_array(extent_for_chunk_at_key(key))}

\* Points the reading systems look at.
ReadPoints == ExtentPoints(ExtentA)

\* The maps the application may have built before the first frame: empty, or
\* with chunk (0,0,0) stored (all default, or filled), decompressed or not.
InitMaps ==
    LET k == <<0, 0, 0>>
        e == extent_for_chunk_at_key(k)
    IN {default_chunk_map,
        ChunkMap(MapInsert(EmptyMap, k, default_array(e)), {}, <<k>>),
        ChunkMap(MapInsert(EmptyMap, k, ArrayFill(e, NumVoxelTypes - 1)), {}, <<k>>),
        ChunkMap(MapInsert(EmptyMap, k, ArrayFill(e, NumVoxelTypes - 1)), {k}, <<>>)}

\* No direct write has happened in the frame that finds the chunks `base`.
NoBypass(base) ==
    [writes |-> 0, buffered |-> {}, cached |-> {}, recopied |-> {}, base |-> base]

\* MapIoPlugin.chunk_shape, configured as the shape of the VoxelMap resource.
PluginChunkShape == chunk_shape

\* Chunk shapes a MapIoPlugin can be constructed with: MapIoPlugin::new takes
\* any shape, whatever the shape of the VoxelMap resource.
PluginChunkShapes == {chunk_shape, PointN(2 * ChunkShape)}

\* The resources after MapIoPlugin::build of a plugin configured with
\* plugin_chunk_shape, the VoxelMap resource being one of InitMaps.
Build(plugin_chunk_shape) ==
    /\ voxel_map \in InitMaps
    /\ local_caches = NewThreadLocalVoxelCache
    /\ edit_buffer = EditBufferNew
    /\ dirty_chunks = DirtyChunksDefault
    /\ stage = 0
    /\ ran = <<>>
    /\ frame = 0
    /\ calls = 0
    /\ staged = <<>>
    /\ flushed_keys = {}
    /\ at_last_merge = voxel_map.chunks
    /\ before_merge = voxel_map.chunks
    /\ buffer_chunk_shape = plugin_chunk_shape
    /\ assert_failed = FALSE
    /\ bypass = NoBypass(voxel_map.chunks)

Init == Build(PluginChunkShape)

\* The plugin is configured with any of PluginChunkShapes.
InitAnyConfig == \E plugin_chunk_shape \in PluginChunkShapes : Build(plugin_chunk_shape)

\* ------------------------------------------------------------- the reader
\* ChunkMapReader3 reading the voxel at p through a local cache: a chunk held
\* decompressed is read in place; a compressed one is read from the local
\* cache's decompressed copy, made on the first miss; no chunk reads as the
\* ambient value.
ReaderGet(map, cache, p) ==
    LET key == chunk_key_containing_point(p)
    IN IF key \notin DOMAIN map.chunks THEN AmbientValue
       ELSE IF key \notin map.compressed THEN map.chunks[key][p]
       ELSE IF key \in DOMAIN cache.store THEN cache.store[key][p]
       ELSE map.chunks[key][p]

\* The local cache after that read: a hit on the shared cache is remembered
\* (for the LRU order), a miss leaves its decompressed copy in the local
\* cache.
ReaderCacheAfterGet(map, cache, p) ==
    LET key == chunk_key_containing_point(p)
    IN IF key \notin DOMAIN map.chunks THEN cache
       ELSE IF key \notin map.compressed
            THEN [cache EXCEPT !.accesses = @ \cup {key}]
       ELSE IF key \in DOMAIN cache.store THEN cache
       ELSE [cache EXCEPT !.store = MapInsert(@, key, map.chunks[key])]

\* Mutant of CopyChunkOrDefault: the upstream chunk is ignored and the
\* buffer's chunk starts as the default array.
CopyChunkOrDefault_always_default(map, key) ==
    default_array(extent_for_chunk_at_key(key))

\* reader.copy_chunk_without_caching(key).map(as_decompressed)
\*     .unwrap_or(Chunk3::with_array(default_array(extent_for_chunk_at_key(key))))
CopyChunkOrDefault(map, key) ==
    IF key \in DOMAIN map.chunks
    THEN map.chunks[key]
    ELSE default_array(extent_for_chunk_at_key(key))

\* ---------------------------------------------------------- the edit buffer
\* Mutant of get_or_insert_with: the chunk is copied and inserted again even
\* when the buffer holds the key.
get_or_insert_with_always(buffer, chunk_key, value) ==
    [buffer EXCEPT
        !.edited_voxels = MapInsert(@, chunk_key, value),
        !.copies = MapInsert(@, chunk_key,
                      IF chunk_key \in DOMAIN @ THEN @[chunk_key] + 1 ELSE 1)]

\* edited_voxels.chunks.get_or_insert_with(chunk_key, || value): the closure
\* runs, and the chunk is inserted, only when the key is missing.
get_or_insert_with(buffer, chunk_key, value) ==
    IF chunk_key \in DOMAIN buffer.edited_voxels
    THEN buffer
    ELSE [buffer EXCEPT
            !.edited_voxels = MapInsert(@, chunk_key, value),
            !.copies = MapInsert(@, chunk_key,
                          IF chunk_key \in DOMAIN @ THEN @[chunk_key] + 1 ELSE 1)]

\* The loop over reader.chunk_keys_for_extent(&extent), one key per step
\* (the keys are distinct, so the order does not matter).
RECURSIVE CopyMissingChunks(_, _, _)
CopyMissingChunks(buffer, map, keys) ==
    IF keys = {} THEN buffer
    ELSE LET key == CHOOSE k \in keys : TRUE
         IN CopyMissingChunks(
                get_or_insert_with(buffer, key, CopyChunkOrDefault(map, key)),
                map, keys \ {key})

\* Mutant of dirty_extent: the neighbours are always touched.
dirty_extent_always_touch(touch_neighbors, extent) ==
    from_min_and_max(PointSub(extent.minimum, chunk_shape),
                     PointAdd(ExtentMax(extent), chunk_shape))

\* Mutant of dirty_extent: the margin is added on the minimum side only.
dirty_extent_min_side(touch_neighbors, extent) ==
    IF touch_neighbors
    THEN from_min_and_max(PointSub(extent.minimum, chunk_shape), ExtentMax(extent))
    ELSE extent

\* The extent whose chunks become dirty.
dirty_extent(touch_neighbors, extent) ==
    IF touch_neighbors
    THEN from_min_and_max(PointSub(extent.minimum, chunk_shape),
                          PointAdd(ExtentMax(extent), chunk_shape))
    ELSE extent

\* EditBuffer::dirty_chunks_for_extent
dirty_chunks_for_extent(buffer, touch_neighbors, extent) ==
    [buffer EXCEPT !.dirty_chunk_keys =
        @ \cup chunk_keys_for_extent(dirty_extent(touch_neighbors, extent))]

\* ChunkMap3::for_each_mut: edit_func on every point of the extent, in the
\* chunk that holds it (an ambient-filled chunk where none is stored).
for_each_mut(chunks, extent, edit_func) ==
    LET keys == (DOMAIN chunks) \cup chunk_keys_for_extent(extent)
        old(k) == IF k \in DOMAIN chunks THEN chunks[k]
                  ELSE default_array(extent_for_chunk_at_key(k))
    IN [k \in keys |->
          [p \in DOMAIN old(k) |->
              IF ExtentContains(extent, p)
              THEN ApplyEditFunc(edit_func, p, old(k)[p])
              ELSE old(k)[p]]]

\* EditBuffer::edit_voxels_out_of_place
edit_voxels_out_of_place(buffer, map, extent, edit_func, touch_neighbors) ==
    LET copied == CopyMissingChunks(buffer, map, chunk_keys_for_extent(extent))
        marked == dirty_chunks_for_extent(copied, touch_neighbors, extent)
    IN [marked EXCEPT !.edited_voxels = for_each_mut(@, extent, edit_func)]

\* Mutant of insert_chunk: a chunk the buffer already holds is kept.
insert_chunk_keep_buffered(buffer, touch_neighbors, chunk_key, chunk) ==
    LET marked == dirty_chunks_for_extent(buffer, touch_neighbors,
                                          extent_for_chunk_at_key(chunk_key))
    IN IF chunk_key \in DOMAIN buffer.edited_voxels
       THEN marked
       ELSE [marked EXCEPT !.edited_voxels = MapInsert(@, chunk_key, chunk)]

\* Mutant of insert_chunk: the chunk is installed without marking it dirty.
insert_chunk_unmarked(buffer, touch_neighbors, chunk_key, chunk) ==
    [buffer EXCEPT !.edited_voxels = MapInsert(@, chunk_key, chunk)]

\* EditBuffer::insert_chunk
insert_chunk(buffer, touch_neighbors, chunk_key, chunk) ==
    LET marked == dirty_chunks_for_extent(buffer, touch_neighbors,
                                          extent_for_chunk_at_key(chunk_key))
    IN [marked EXCEPT !.edited_voxels = MapInsert(@, chunk_key, chunk)]

\* Mutant of MergeChunks: a chunk the destination already holds is kept.
MergeChunks_keep_existing(buffer, dst_map, order) ==
    LET keys == DOMAIN buffer.edited_voxels
    IN ChunkMap([k \in (DOMAIN dst_map.chunks) \cup keys |->
                    IF k \in DOMAIN dst_map.chunks
                    THEN dst_map.chunks[k] ELSE buffer.edited_voxels[k]],
                dst_map.compressed \ keys,
                SeqWithout(dst_map.lru, keys) \o order)

\* Mutant of MergeChunks: the destination's chunks are replaced by the
\* buffer's, the others dropped.
MergeChunks_drop_others(buffer, dst_map, order) ==
    ChunkMap(buffer.edited_voxels, {}, order)

\* The destination map after the loop of merge_edits: every buffered chunk
\* is inserted decompressed, in the order the buffer's map yields them.
MergeChunks(buffer, dst_map, order) ==
    LET keys == DOMAIN buffer.edited_voxels
    IN ChunkMap([k \in (DOMAIN dst_map.chunks) \cup keys |->
                    IF k \in keys THEN buffer.edited_voxels[k] ELSE dst_map.chunks[k]],
                dst_map.compressed \ keys,
                SeqWithout(dst_map.lru, keys) \o order)

\* Mutant of MergeReport: the report is added to the one published before.
MergeReport_accumulate(buffer, order) ==
    [edited_chunk_keys |->
        dirty_chunks.edited_chunk_keys
            \o SeqWithout(order, SeqRange(dirty_chunks.edited_chunk_keys)),
     dirty_chunk_keys |-> dirty_chunks.dirty_chunk_keys \cup buffer.dirty_chunk_keys]

\* The DirtyChunks merge_edits returns.
MergeReport(buffer, order) ==
    [edited_chunk_keys |-> order, dirty_chunk_keys |-> buffer.dirty_chunk_keys]

\* ------------------------------------------------------- the shared cache
\* Mutant of FlushEntry: the locally decompressed copy is dropped; only the
\* LRU order is updated.
FlushEntry_drop_missed(map, cache, key) ==
    IF key \in SeqRange(map.lru)
    THEN [map EXCEPT !.lru = Append(SeqWithout(@, {key}), key)]
    ELSE map

\* Mutant of FlushEntry: a locally decompressed copy is dropped when the
\* shared cache already holds the chunk decompressed.
FlushEntry_keep_shared(map, cache, key) ==
    IF key \in DOMAIN cache.store /\ key \in map.compressed
    THEN ChunkMap(MapInsert(map.chunks, key, cache.store[key]),
                  map.compressed \ {key},
                  Append(SeqWithout(map.lru, {key}), key))
    ELSE IF key \in SeqRange(map.lru)
    THEN [map EXCEPT !.lru = Append(SeqWithout(@, {key}), key)]
    ELSE map

\* The shared map after one entry of a local cache is flushed: a missed
\* (locally decompressed) chunk is inserted into the shared cache, replacing
\* the compressed entry; a remembered hit makes the key most recently used.
FlushEntry(map, cache, key) ==
    IF key \in DOMAIN cache.store
    THEN ChunkMap(MapInsert(map.chunks, key, cache.store[key]),
                  map.compressed \ {key},
                  Append(SeqWithout(map.lru, {key}), key))
    ELSE IF key \in SeqRange(map.lru)
    THEN [map EXCEPT !.lru = Append(SeqWithout(@, {key}), key)]
    ELSE map

\* storage_mut().flush_local_cache(cache), the entries taken in `order`.
RECURSIVE flush_local_cache(_, _, _)
flush_local_cache(map, cache, order) ==
    IF order = <<>> THEN map
    ELSE flush_local_cache(FlushEntry(map, cache, Head(order)), cache, Tail(order))

\* The maps the loop over the taken caches can leave, from worker w on: the
\* entries of one cache come in any order.
RECURSIVE FlushCachesFrom(_, _, _)
FlushCachesFrom(map, caches, w) ==
    IF w > NumWorkers THEN {map}
    ELSE UNION {FlushCachesFrom(flush_local_cache(map, caches[w], order), caches, w + 1) :
                   order \in Orderings((DOMAIN caches[w].store) \cup caches[w].accesses)}

\* A chunk equal to the default voxel value everywhere.
IsEmptyChunk(array) == \A p \in DOMAIN array : array[p] = AmbientValue

\* remove_if_empty: every chunk whose content is default everywhere is removed.
remove_if_empty(map) ==
    LET gone == {k \in DOMAIN map.chunks : IsEmptyChunk(map.chunks[k])}
    IN ChunkMap(MapRemove(map.chunks, gone), map.compressed \ gone,
                SeqWithout(map.lru, gone))

\* compress_excess: while the shared cache holds more decompressed chunks
\* than the budget, the least recently used one is compressed.
RECURSIVE compress_excess(_, _)
compress_excess(map, budget) ==
    IF Len(map.lru) <= budget THEN map
    ELSE compress_excess(
            ChunkMap(map.chunks, map.compressed \cup {Head(map.lru)}, Tail(map.lru)),
            budget)

\* ---------------------------------------------------------------- actions
\* Mutant of Read: a read miss decompresses the chunk in the shared cache.
Read_caching_shared(w, p) ==
    /\ stage = 0
    /\ ~assert_failed
    /\ frame < MaxFrames
    /\ LET key == chunk_key_containing_point(p)
       IN voxel_map' =
             IF key \in voxel_map.compressed
             THEN ChunkMap(voxel_map.chunks, voxel_map.compressed \ {key},
                           Append(voxel_map.lru, key))
             ELSE voxel_map
    /\ local_caches' = [local_caches EXCEPT
                           ![w] = ReaderCacheAfterGet(voxel_map', @, p)]
    /\ UNCHANGED <<edit_buffer, dirty_chunks, stage, ran, frame, calls,
                   staged, flushed_keys, at_last_merge, before_merge,
                   buffer_chunk_shape, assert_failed, bypass>>

\* A user system reads the voxel at p through worker w's reader.
Read(w, p) ==
    /\ stage = 0
    /\ ~assert_failed
    /\ frame < MaxFrames
    /\ local_caches' = [local_caches EXCEPT
                           ![w] = ReaderCacheAfterGet(voxel_map, @, p)]
    /\ UNCHANGED <<voxel_map, edit_buffer, dirty_chunks, stage, ran, frame, calls,
                   staged, flushed_keys, at_last_merge, before_merge,
                   buffer_chunk_shape, assert_failed, bypass>>

\* Mutant of _edit_extent: the edit is made in place, on the shared map.
_edit_extent_in_place(touch_neighbors, extent, edit_func) ==
    /\ stage = 0
    /\ ~assert_failed
    /\ frame < MaxFrames
    /\ calls < MaxEdits
    /\ calls' = calls + 1
    /\ edit_buffer' = dirty_chunks_for_extent(edit_buffer, touch_neighbors, extent)
    /\ voxel_map' =
          LET edited == for_each_mut(voxel_map.chunks, extent, edit_func)
              new == (DOMAIN edited) \ (DOMAIN voxel_map.chunks)
          IN ChunkMap(edited, voxel_map.compressed,
                      voxel_map.lru \o (CHOOSE o \in Orderings(new) : TRUE))
    /\ staged' = Append(staged, [op |-> "edit", extent |-> extent,
                                 edit_func |-> edit_func,
                                 touch_neighbors |-> touch_neighbors])
    /\ UNCHANGED <<local_caches, dirty_chunks, stage, ran, frame,
                   flushed_keys, at_last_merge, before_merge,
                   buffer_chunk_shape, assert_failed, bypass>>

\* Mutant of _edit_extent: the chunks are copied with a caching read, which
\* leaves the decompressed copy of a compressed chunk in the local cache of
\* the calling thread.
_edit_extent_caching(touch_neighbors, extent, edit_func) ==
    /\ stage = 0
    /\ ~assert_failed
    /\ buffer_chunk_shape = chunk_shape
    /\ frame < MaxFrames
    /\ calls < MaxEdits
    /\ calls' = calls + 1
    /\ edit_buffer' = edit_voxels_out_of_place(edit_buffer, voxel_map, extent,
                                               edit_func, touch_neighbors)
    /\ staged' = Append(staged, [op |-> "edit", extent |-> extent,
                                 edit_func |-> edit_func,
                                 touch_neighbors |-> touch_neighbors])
    /\ local_caches' =
          [local_caches EXCEPT ![1].store =
              [k \in (DOMAIN @) \cup ((chunk_keys_for_extent(extent)
                                          \ DOMAIN edit_buffer.edited_voxels)
                                       \cap voxel_map.compressed) |->
                  IF k \in DOMAIN @ THEN @[k] ELSE voxel_map.chunks[k]]]
    /\ UNCHANGED <<voxel_map, dirty_chunks, stage, ran, frame, flushed_keys,
                   at_last_merge, before_merge, buffer_chunk_shape, assert_failed,
                   bypass>>

\* VoxelEditor::_edit_extent.  The debug_assert of edit_voxels_out_of_place
\* compares the buffer's chunk shape with the shape of the map being read;
\* when it fails the call panics and the application stops.
_edit_extent(touch_neighbors, extent, edit_func) ==
    /\ stage = 0
    /\ ~assert_failed
    /\ frame < MaxFrames
    /\ calls < MaxEdits
    /\ calls' = calls + 1
    /\ IF buffer_chunk_shape = chunk_shape
       THEN /\ edit_buffer' = edit_voxels_out_of_place(edit_buffer, voxel_map, extent,
                                                       edit_func, touch_neighbors)
            /\ staged' = Append(staged, [op |-> "edit", extent |-> extent,
                                         edit_func |-> edit_func,
                                         touch_neighbors |-> touch_neighbors])
            /\ bypass' = [bypass EXCEPT !.recopied = @ \cup
                              ((chunk_keys_for_extent(extent)
                                  \ DOMAIN edit_buffer.edited_voxels) \cap bypass.cached)]
            /\ UNCHANGED assert_failed
       ELSE /\ assert_failed' = TRUE
            /\ UNCHANGED <<edit_buffer, staged, bypass>>
    /\ UNCHANGED <<voxel_map, local_caches, dirty_chunks, stage, ran, frame,
                   flushed_keys, at_last_merge, before_merge, buffer_chunk_shape>>

\* VoxelEditor::edit_extent
edit_extent == \E extent \in EditExtents, edit_func \in EditFuncs :
    _edit_extent(FALSE, extent, edit_func)

\* VoxelEditor::edit_extent_and_touch_neighbors
edit_extent_and_touch_neighbors == \E extent \in EditExtents, edit_func \in EditFuncs :
    _edit_extent(TRUE, extent, edit_func)

\* The body shared by VoxelEditor::insert_chunk and
\* VoxelEditor::insert_chunk_and_touch_neighbors.  Only calls on a buffer of
\* the map's chunk shape are modelled.
EditorInsertChunk(touch_neighbors, chunk_key, chunk) ==
    /\ stage = 0
    /\ ~assert_failed
    /\ buffer_chunk_shape = chunk_shape
    /\ frame < MaxFrames
    /\ calls < MaxEdits
    /\ calls' = calls + 1
    /\ edit_buffer' = insert_chunk(edit_buffer, touch_neighbors, chunk_key, chunk)
    /\ staged' = Append(staged, [op |-> "insert", chunk_key |-> chunk_key,
                                 chunk |-> chunk,
                                 touch_neighbors |-> touch_neighbors])
    /\ UNCHANGED <<voxel_map, local_caches, dirty_chunks, stage, ran, frame,
                   flushed_keys, at_last_merge, before_merge,
                   buffer_chunk_shape, assert_failed, bypass>>

\* VoxelEditor::insert_chunk
editor_insert_chunk == \E key \in InsertKeys : \E chunk \in InsertArrays(key) :
    EditorInsertChunk(FALSE, key, chunk)

\* VoxelEditor::insert_chunk_and_touch_neighbors
insert_chunk_and_touch_neighbors == \E key \in InsertKeys : \E chunk \in InsertArrays(key) :
    EditorInsertChunk(TRUE, key, chunk)

\* The user systems of the frame are over; stage::LAST begins.
BeginLastStage ==
    /\ stage = 0
    /\ ~assert_failed
    /\ frame < MaxFrames
    /\ stage' = 1
    /\ UNCHANGED <<voxel_map, local_caches, edit_buffer, dirty_chunks, ran, frame, calls,
                   staged, flushed_keys, at_last_merge, before_merge,
                   buffer_chunk_shape, assert_failed, bypass>>

\* The executor runs `system` when it is the next system of stage::LAST.
IsNext(system) == stage \in 1..Len(LastStageSystems) /\ LastStageSystems[stage] = system

\* The executor's bookkeeping when `system` has run: the next system is due
\* (or, past the last one, the end of the frame).
Ran(system) ==
    /\ ran' = Append(ran, system)
    /\ stage' = stage + 1
    /\ UNCHANGED <<frame, calls, staged, before_merge>>

\* chunk_cache_flusher_system
chunk_cache_flusher_system ==
    /\ IsNext("chunk_cache_flusher_system")
    /\ local_caches' = NewThreadLocalVoxelCache
    /\ voxel_map' \in FlushCachesFrom(voxel_map, local_caches, 1)
    /\ flushed_keys' = UNION {DOMAIN local_caches[w].store : w \in Workers}
    /\ Ran("chunk_cache_flusher_system")
    /\ UNCHANGED <<edit_buffer, dirty_chunks, at_last_merge,
                   buffer_chunk_shape, assert_failed, bypass>>

\* empty_chunk_remover_system
empty_chunk_remover_system ==
    /\ IsNext("empty_chunk_remover_system")
    /\ voxel_map' = remove_if_empty(voxel_map)
    /\ Ran("empty_chunk_remover_system")
    /\ UNCHANGED <<local_caches, edit_buffer, dirty_chunks, flushed_keys, at_last_merge,
                   buffer_chunk_shape, assert_failed, bypass>>

\* double_buffering_system
double_buffering_system ==
    /\ IsNext("double_buffering_system")
    /\ \E order \in Orderings(DOMAIN edit_buffer.edited_voxels) :
          /\ voxel_map' = MergeChunks(edit_buffer, voxel_map, order)
          /\ dirty_chunks' = MergeReport(edit_buffer, order)
    /\ edit_buffer' = EditBufferNew
    /\ buffer_chunk_shape' = chunk_shape
    /\ at_last_merge' = voxel_map'.chunks
    /\ Ran("double_buffering_system")
    /\ UNCHANGED <<local_caches, flushed_keys, assert_failed, bypass>>

\* chunk_compressor_system
chunk_compressor_system ==
    /\ IsNext("chunk_compressor_system")
    /\ voxel_map' = compress_excess(voxel_map, MaxCachedChunks)
    /\ Ran("chunk_compressor_system")
    /\ UNCHANGED <<local_caches, edit_buffer, dirty_chunks, flushed_keys, at_last_merge,
                   buffer_chunk_shape, assert_failed, bypass>>

\* Every system of stage::LAST has run: the frame is over and the next one
\* begins.  The history of the frame is forgotten.
NextFrame ==
    /\ stage = Len(LastStageSystems) + 1
    /\ stage' = 0
    /\ frame' = frame + 1
    /\ ran' = <<>>
    /\ staged' = <<>>
    /\ flushed_keys' = {}
    /\ before_merge' = at_last_merge
    /\ bypass' = [NoBypass(voxel_map.chunks) EXCEPT !.writes = bypass.writes]
    /\ UNCHANGED <<voxel_map, local_caches, edit_buffer, dirty_chunks, calls,
                   at_last_merge, buffer_chunk_shape, assert_failed>>

Next ==
    \/ \E w \in Workers, p \in ReadPoints : Read(w, p)
    \/ edit_extent
    \/ edit_extent_and_touch_neighbors
    \/ editor_insert_chunk
    \/ insert_chunk_and_touch_neighbors
    \/ BeginLastStage
    \/ chunk_cache_flusher_system
    \/ empty_chunk_remover_system
    \/ double_buffering_system
    \/ chunk_compressor_system
    \/ NextFrame

Spec == Init /\ [][Next]_vars

\* The application, the plugin's chunk_shape being any of PluginChunkShapes.
SpecAnyConfig == InitAnyConfig /\ [][Next]_vars

\* Points a user system may write directly.
DirectWritePoints == ExtentPoints(ExtentA)

\* A user system that takes the VoxelMap resource mutably and writes the
\* voxel at p in place, against the WARNING of MapIoPlugin: the chunk is
\* decompressed in the shared cache (or created with the ambient value) and
\* the voxel is changed there.
DirectWrite(p) ==
    /\ stage = 0
    /\ ~assert_failed
    /\ frame < MaxFrames
    /\ bypass.writes < MaxDirectWrites
    /\ calls < MaxEdits
    /\ calls' = calls + 1
    /\ LET key == chunk_key_containing_point(p)
           chunk == CopyChunkOrDefault(voxel_map, key)
           written == [chunk EXCEPT ![p] = (chunk[p] + 1) % NumVoxelTypes]
           buffered == key \in DOMAIN edit_buffer.edited_voxels
           cached == \E w \in Workers : key \in DOMAIN local_caches[w].store
       IN /\ voxel_map' = ChunkMap(MapInsert(voxel_map.chunks, key, written),
                                   voxel_map.compressed \ {key},
                                   Append(SeqWithout(voxel_map.lru, {key}), key))
          /\ bypass' = [bypass EXCEPT
                !.writes = @ + 1,
                !.buffered = IF buffered THEN @ \cup {key} ELSE @,
                !.cached = IF cached THEN @ \cup {key} ELSE @,
                !.base = IF buffered \/ cached THEN @ ELSE MapInsert(@, key, written)]
    /\ UNCHANGED <<local_caches, edit_buffer, dirty_chunks, stage, ran, frame,
                   staged, flushed_keys, at_last_merge, before_merge,
                   buffer_chunk_shape, assert_failed>>

NextBypass ==
    \/ Next
    \/ \E p \in DirectWritePoints : DirectWrite(p)

\* The application with user systems that also write into the VoxelMap
\* directly.
SpecBypass == Init /\ [][NextBypass]_vars

\* ------------------------------------------------------------- properties
\* What the properties below compare the program with.

\* Every point of the chunks an editor call of the model can reach.
WatchPoints ==
    UNION {ExtentPoints(extent_for_chunk_at_key(k)) : k \in {<<0, 0, 0>>, <<1, 0, 0>>}}

\* The chunk keys an editor call edits directly: the chunks that hold a point
\* of the edited extent, or the key of the installed chunk.
CallKeys(call) ==
    IF call.op = "edit"
    THEN {chunk_key_containing_point(p) : p \in ExtentPoints(call.extent)}
    ELSE {call.chunk_key}

EditedKeys(log) == UNION {CallKeys(log[i]) : i \in 1..Len(log)}

\* A chunk key with its 26 neighbours in chunk space.
MooreNeighborhood(k) ==
    {<<k[1] + dx, k[2] + dy, k[3] + dz>> : dx \in -1..1, dy \in -1..1, dz \in -1..1}

\* The keys an editor call makes dirty.
CallDirty(call) ==
    IF call.touch_neighbors
    THEN UNION {MooreNeighborhood(k) : k \in CallKeys(call)}
    ELSE CallKeys(call)

DirtyOf(log) == UNION {CallDirty(log[i]) : i \in 1..Len(log)}

\* The voxel at p after an editor call, v being the voxel before it.
CallWrites(call, p, v) ==
    IF call.op = "edit"
    THEN IF ExtentContains(call.extent, p) THEN ApplyEditFunc(call.edit_func, p, v) ELSE v
    ELSE IF chunk_key_containing_point(p) = call.chunk_key THEN call.chunk[p] ELSE v

\* The voxel at p after the calls log[i..], in call order, v being the voxel
\* before them.
RECURSIVE ReplayFrom(_, _, _, _)
ReplayFrom(log, i, p, v) ==
    IF i > Len(log) THEN v ELSE ReplayFrom(log, i + 1, p, CallWrites(log[i], p, v))

\* The voxel at p after the calls of the log, applied in call order to the
\* chunks `chunks` (the ambient value where no chunk is stored).
Replay(log, chunks, p) == ReplayFrom(log, 1, p, GetVoxel(chunks, p))

\* The merge of this frame has run.
AfterMerge == "double_buffering_system" \in SeqRange(ran)
\* Every system of stage::LAST has run in this frame.
FrameOver == stage = Len(LastStageSystems) + 1

\* C1: read/write isolation.  Until the merge of a frame has run, whatever
\* the editor has staged in the edit buffer, every worker's reader returns at
\* every point the voxel the store held when the last merge ended (as built,
\* in the first frame).
C1_ReadIsolation ==
    ~AfterMerge =>
        \A p \in WatchPoints :
            LET merged == GetVoxel(at_last_merge, p)
            IN \A w \in Workers : ReaderGet(voxel_map, local_caches[w], p) = merged

\* C1 witness: in a later frame, before the merge, the edit buffer holds a
\* voxel that differs from what the readers return at that point.
C1_Witness ==
    /\ frame >= 1
    /\ ~AfterMerge
    /\ \E p \in WatchPoints :
          /\ chunk_key_containing_point(p) \in DOMAIN edit_buffer.edited_voxels
          /\ GetVoxel(edit_buffer.edited_voxels, p)
                # ReaderGet(voxel_map, local_caches[1], p)
          /\ GetVoxel(at_last_merge, p) # AmbientValue

\* C2: edits become visible at the end of the same frame.  Once the merge of
\* a frame has run, a read at any point of an extent edited in the frame
\* returns the frame's editor calls applied, in call order, to the voxel the
\* store held before the frame (an installed chunk counts as a write of the
\* whole chunk).
C2_EditsVisibleAfterMerge ==
    AfterMerge =>
        \A i \in 1..Len(staged) :
            staged[i].op = "edit" =>
                \A p \in ExtentPoints(staged[i].extent), w \in Workers :
                    ReaderGet(voxel_map, local_caches[w], p)
                        = Replay(staged, before_merge, p)

\* C2 witness: two edits of the same voxel whose order matters (set to 1,
\* then increment) have been merged, and the store holds 2 there.
C2_Witness ==
    /\ AfterMerge
    /\ Len(staged) = 2
    /\ staged[1].op = "edit" /\ staged[1].edit_func = "set_one"
    /\ staged[2].op = "edit" /\ staged[2].edit_func = "increment"
    /\ \E p \in ExtentPoints(staged[1].extent) \cap ExtentPoints(staged[2].extent) :
          /\ ReaderGet(voxel_map, local_caches[1], p) = 2
          /\ GetVoxel(before_merge, p) # 2

\* C3: dirty set without neighbours.  When the only editor call of a frame
\* is an edit_extent (touch_neighbors = false) whose extent lies in a single
\* chunk, the dirty_chunk_keys the merge reports is exactly the set holding
\* that chunk's key.
C3_DirtyWithoutNeighbors ==
    (/\ AfterMerge
     /\ Len(staged) = 1
     /\ staged[1].op = "edit"
     /\ ~staged[1].touch_neighbors
     /\ Cardinality(CallKeys(staged[1])) = 1)
    => dirty_chunks.dirty_chunk_keys
          = {chunk_key_containing_point(staged[1].extent.minimum)}

\* C3 witness: such a frame has been merged and reports the one key (0,0,0).
C3_Witness ==
    /\ AfterMerge
    /\ Len(staged) = 1
    /\ staged[1].op = "edit"
    /\ ~staged[1].touch_neighbors
    /\ staged[1].extent = ExtentA
    /\ dirty_chunks.dirty_chunk_keys = {<<0, 0, 0>>}

\* C4: dirty set with neighbours.  When every editor call of a frame touches
\* neighbours, the dirty_chunk_keys the merge reports is exactly the edited
\* keys together with the 26 chunk-space neighbours of each; for calls that
\* edit one chunk only, these are exactly 27 keys.
C4_DirtyWithNeighbors ==
    (/\ AfterMerge
     /\ \A i \in 1..Len(staged) : staged[i].touch_neighbors)
    => /\ dirty_chunks.dirty_chunk_keys
             = UNION {MooreNeighborhood(k) : k \in EditedKeys(staged)}
       /\ Cardinality(EditedKeys(staged)) = 1
             => Cardinality(dirty_chunks.dirty_chunk_keys) = 27

\* C4 witness: a one-voxel edit in chunk (0,0,0) that touches neighbours has
\* been merged; the edited keys are (0,0,0) and the dirty keys are the 27
\* keys from (-1,-1,-1) to (1,1,1).
C4_Witness ==
    /\ AfterMerge
    /\ Len(staged) = 1
    /\ staged[1].op = "edit"
    /\ staged[1].touch_neighbors
    /\ staged[1].extent = ExtentA
    /\ SeqRange(dirty_chunks.edited_chunk_keys) = {<<0, 0, 0>>}
    /\ dirty_chunks.dirty_chunk_keys
          = {<<x, y, z>> : x \in -1..1, y \in -1..1, z \in -1..1}
    /\ Cardinality(dirty_chunks.dirty_chunk_keys) = 27

\* C5: copy on first touch.  In one buffer lifetime no chunk is copied from
\* upstream (or default-filled) more than once, and every voxel of a buffered
\* chunk is the result of the frame's editor calls applied in call order to
\* the upstream voxel: a later edit works on the buffered copy and sees the
\* earlier ones, also when the extents overlap in part.
C5_CopyOnFirstTouch ==
    /\ \A k \in DOMAIN edit_buffer.copies : edit_buffer.copies[k] <= 1
    /\ \A k \in DOMAIN edit_buffer.edited_voxels :
          \A p \in ExtentPoints(extent_for_chunk_at_key(k)) :
              edit_buffer.edited_voxels[k][p] = Replay(staged, at_last_merge, p)

\* C5 witness: two edits with extents that overlap in part (ExtentA, then
\* ExtentB) have been staged over a stored chunk; chunk (0,0,0) was copied
\* once and the voxel both edits cover holds the second edit's result on
\* the first's.
C5_Witness ==
    /\ stage = 0
    /\ Len(staged) = 2
    /\ staged[1].op = "edit" /\ staged[1].extent = ExtentA
    /\ staged[1].edit_func = "set_one"
    /\ staged[2].op = "edit" /\ staged[2].extent = ExtentB
    /\ staged[2].edit_func = "increment"
    /\ <<0, 0, 0>> \in DOMAIN voxel_map.chunks
    /\ edit_buffer.copies[<<0, 0, 0>>] = 1
    /\ edit_buffer.edited_voxels[<<0, 0, 0>>][ExtentA.minimum] = 2
    /\ GetVoxel(voxel_map.chunks, ExtentA.minimum) = 2

\* C6: merge_edits.  The merge step puts every chunk of the buffer into the
\* store, decompressed, in place of whatever the store held at that key,
\* leaves every other chunk of the store as it was, and reports as
\* edited_chunk_keys exactly the keys edited directly (overlapped by an edit
\* extent or installed by insert_chunk) since the buffer was created.
C6_MergeInto ==
    [][IsNext("double_buffering_system") =>
          /\ DOMAIN voxel_map'.chunks
                = (DOMAIN voxel_map.chunks) \cup (DOMAIN edit_buffer.edited_voxels)
          /\ \A k \in DOMAIN edit_buffer.edited_voxels :
                /\ voxel_map'.chunks[k] = edit_buffer.edited_voxels[k]
                /\ k \notin voxel_map'.compressed
          /\ \A k \in (DOMAIN voxel_map.chunks) \ (DOMAIN edit_buffer.edited_voxels) :
                /\ voxel_map'.chunks[k] = voxel_map.chunks[k]
                /\ k \in voxel_map'.compressed <=> k \in voxel_map.compressed
          /\ SeqRange(dirty_chunks'.edited_chunk_keys) = EditedKeys(staged)]_vars

\* C6 witness: a merge has replaced a chunk the store held with different
\* content, and a chunk of the store that was not in the buffer is still
\* there.
C6_Witness ==
    /\ AfterMerge
    /\ \E k \in SeqRange(dirty_chunks.edited_chunk_keys) :
          /\ k \in DOMAIN before_merge
          /\ voxel_map.chunks[k] # before_merge[k]
    /\ \E k \in (DOMAIN voxel_map.chunks) \ SeqRange(dirty_chunks.edited_chunk_keys) :
          /\ k \in DOMAIN before_merge
          /\ voxel_map.chunks[k] = before_merge[k]

\* C7: per-frame freshness.  Once the merge of a frame has run, the edit
\* buffer is a new empty one and the published DirtyChunks holds the edited
\* and dirty keys of this frame's editor calls and no others: nothing of an
\* earlier frame remains, and a frame without editor calls publishes empty
\* sets.
C7_FreshPerCycle ==
    AfterMerge =>
        /\ edit_buffer = EditBufferNew
        /\ SeqRange(dirty_chunks.edited_chunk_keys) = EditedKeys(staged)
        /\ dirty_chunks.dirty_chunk_keys = DirtyOf(staged)
        /\ staged = <<>> => dirty_chunks = DirtyChunksDefault

\* C7 witness: a frame without editor calls, after a frame with some, has
\* been merged and publishes empty sets.
C7_Witness ==
    /\ AfterMerge
    /\ frame >= 1
    /\ calls > 0
    /\ staged = <<>>
    /\ dirty_chunks.edited_chunk_keys = <<>>
    /\ dirty_chunks.dirty_chunk_keys = {}

\* C8: stage ordering.  In stage::LAST the systems that have run so far are
\* always a prefix of flush, remove empty chunks, merge, compress; when the
\* frame is over each has run exactly once, in that order.
C8_StageOrder ==
    LET order == <<"chunk_cache_flusher_system", "empty_chunk_remover_system",
                   "double_buffering_system", "chunk_compressor_system">>
    IN /\ stage \in 0..5
       /\ stage = 0 => ran = <<>>
       /\ stage > 0 => ran = SubSeq(order, 1, stage - 1)

\* C8 witness: the second frame is over and the four systems have run in it,
\* in order.
C8_Witness ==
    /\ FrameOver
    /\ frame = 1
    /\ ran = <<"chunk_cache_flusher_system", "empty_chunk_remover_system",
               "double_buffering_system", "chunk_compressor_system">>

\* C9: flush before merge prevents shadowing.  When a frame is over, every
\* chunk that was both decompressed into a worker's local cache (and so
\* flushed) and edited through the buffer in that frame is stored with the
\* edited content, not the locally cached copy.
C9_NoShadowing ==
    FrameOver =>
        \A k \in flushed_keys \cap EditedKeys(staged) :
            /\ k \in DOMAIN voxel_map.chunks
            /\ \A p \in ExtentPoints(extent_for_chunk_at_key(k)) :
                  voxel_map.chunks[k][p] = Replay(staged, before_merge, p)

\* C9 witness: a frame is over in which a chunk was read while compressed
\* (and flushed from the local cache) and edited, and the stored chunk
\* differs from the copy the local cache held.
C9_Witness ==
    /\ FrameOver
    /\ \E k \in flushed_keys \cap EditedKeys(staged) :
          /\ k \in DOMAIN before_merge
          /\ k \in DOMAIN voxel_map.chunks
          /\ voxel_map.chunks[k] # before_merge[k]

\* C10: removal before merge.  When a frame is over, every chunk edited in
\* the frame is in the store (the frame's removal pass has not deleted it);
\* and where the chunk was absent or all default before the frame and the
\* frame's edits left a non-default voxel in it, the store holds the edited
\* content.
C10_RemovalBeforeMerge ==
    FrameOver =>
        \A k \in EditedKeys(staged) :
            /\ k \in DOMAIN voxel_map.chunks
            /\ (/\ k \in DOMAIN before_merge => IsEmptyChunk(before_merge[k])
                /\ \E p \in ExtentPoints(extent_for_chunk_at_key(k)) :
                      Replay(staged, before_merge, p) # AmbientValue)
               => \A p \in ExtentPoints(extent_for_chunk_at_key(k)) :
                      voxel_map.chunks[k][p] = Replay(staged, before_merge, p)

\* C10 witness: a frame is over in which a chunk stored all default before
\* the frame was edited, and the store holds it with a non-default voxel.
C10_Witness ==
    /\ FrameOver
    /\ \E k \in EditedKeys(staged) :
          /\ k \in DOMAIN before_merge
          /\ IsEmptyChunk(before_merge[k])
          /\ k \in DOMAIN voxel_map.chunks
          /\ ~IsEmptyChunk(voxel_map.chunks[k])

\* The removal pass of this frame has completed.
RemovalOver == "empty_chunk_remover_system" \in SeqRange(ran) \/ FrameOver

\* The points of the chunk at key k.
ChunkPoints(k) == ExtentPoints(extent_for_chunk_at_key(k))

Cached(map) == (DOMAIN map.chunks) \ map.compressed

\* C12: eviction safety.  A compression pass leaves at most the budget of
\* decompressed chunks in the shared cache (so the cache is within the budget
\* when the frame is over), the chunks it compresses are less recently used
\* than every chunk it leaves decompressed, and it changes no chunk's content:
\* every reader returns at every point the voxel it returned before the pass.
C12_EvictionSafety ==
    [][/\ IsNext("chunk_compressor_system") =>
            /\ Cardinality(Cached(voxel_map')) <= MaxCachedChunks
            /\ Cached(voxel_map') \subseteq Cached(voxel_map)
            /\ \A i, j \in 1..Len(voxel_map.lru) :
                  (voxel_map.lru[i] \in voxel_map'.compressed
                      /\ voxel_map.lru[j] \notin voxel_map'.compressed) => i < j
            /\ voxel_map'.chunks = voxel_map.chunks
            /\ \A w \in Workers, p \in WatchPoints :
                  ReaderGet(voxel_map', local_caches'[w], p)
                      = ReaderGet(voxel_map, local_caches[w], p)
       /\ FrameOver' => Cardinality(Cached(voxel_map')) <= MaxCachedChunks
      ]_vars

\* The compression pass of this frame has compressed a chunk that this
\* frame's merge had put into the shared cache, and left the cache full.
C12_Witness ==
    /\ FrameOver
    /\ Cardinality(Cached(voxel_map)) = MaxCachedChunks
    /\ \E k \in SeqRange(dirty_chunks.edited_chunk_keys) : k \in voxel_map.compressed

\* C13: the flush transfers ownership.  The flush leaves a fresh, empty set
\* of thread-local caches, and every chunk a thread-local cache held is,
\* after the flush, held decompressed by the shared cache, with the content
\* the local copy had.
C13_FlushTransfersOwnership ==
    [][IsNext("chunk_cache_flusher_system") =>
          /\ local_caches' = NewThreadLocalVoxelCache
          /\ \A w \in Workers : \A k \in DOMAIN local_caches[w].store :
                /\ k \in Cached(voxel_map')
                /\ k \in SeqRange(voxel_map'.lru)
                /\ voxel_map'.chunks[k] = local_caches[w].store[k]
      ]_vars

\* The flush has just run and has handed a locally decompressed chunk to the
\* shared cache.
C13_Witness ==
    /\ IsNext("empty_chunk_remover_system")
    /\ flushed_keys # {}
    /\ local_caches = NewThreadLocalVoxelCache
    /\ flushed_keys \subseteq Cached(voxel_map)

\* C14: reads do not mutate the shared store.  A step of the reading systems
\* (a step of the user systems that is neither an editor call nor a direct
\* write), whichever worker takes it and whatever the other workers have
\* read, leaves the shared store as it was (key set, representation and
\* content of every chunk, LRU order); it changes the local cache of at most
\* one worker, and a chunk copy that cache gains is the decompressed content
\* of a chunk the store holds compressed.
C14_ReadsLeaveStore ==
    [][(stage = 0 /\ stage' = 0 /\ calls' = calls /\ bypass' = bypass) =>
          /\ voxel_map' = voxel_map
          /\ \A w1, w2 \in Workers :
                (local_caches'[w1] # local_caches[w1]
                    /\ local_caches'[w2] # local_caches[w2]) => w1 = w2
          /\ \A w \in Workers :
                \A k \in (DOMAIN local_caches'[w].store) \ (DOMAIN local_caches[w].store) :
                    /\ k \in voxel_map.compressed
                    /\ local_caches'[w].store[k] = voxel_map.chunks[k]
      ]_vars

\* A read miss has left a decompressed copy in one worker's local cache and
\* not in another's, and the store still holds the chunk compressed.
C14_Witness ==
    /\ stage = 0
    /\ \E w1, w2 \in Workers : \E k \in DOMAIN local_caches[w1].store :
          /\ w1 # w2
          /\ k \notin DOMAIN local_caches[w2].store
          /\ k \in voxel_map.compressed
          /\ k \notin SeqRange(voxel_map.lru)

\* The calls before call i of the log leave key k alone.
FirstOnKey(log, i, k) == \A j \in 1..(i - 1) : k \notin CallKeys(log[j])

\* C15: insert_chunk.  While the buffer of a frame lives, for every
\* insert_chunk call of the frame: the buffer holds the key and the call's
\* dirty keys (the key, and its 26 neighbours when touch_neighbors is set) are
\* marked; every voxel of the buffered chunk is the voxel of the inserted
\* array with the later calls of the frame applied to it (nothing buffered
\* before the insertion survives), and when no earlier call touched the key
\* the buffer has never copied that chunk from upstream.
C15_InsertChunk ==
    ~AfterMerge =>
        \A i \in 1..Len(staged) :
            staged[i].op = "insert" =>
                LET k == staged[i].chunk_key
                IN /\ k \in DOMAIN edit_buffer.edited_voxels
                   /\ k \in edit_buffer.dirty_chunk_keys
                   /\ (staged[i].touch_neighbors =>
                          MooreNeighborhood(k) \subseteq edit_buffer.dirty_chunk_keys)
                   /\ \A p \in ChunkPoints(k) :
                          edit_buffer.edited_voxels[k][p]
                              = ReplayFrom(staged, i + 1, p, staged[i].chunk[p])
                   /\ FirstOnKey(staged, i, k) => k \notin DOMAIN edit_buffer.copies

\* A filled array was inserted for a key the store does not hold, and a later
\* edit_extent of the same frame has incremented the inserted voxel: the
\* buffer holds the incremented inserted value, not an incremented default.
C15_Witness ==
    /\ stage = 0
    /\ Len(staged) = 2
    /\ staged[1].op = "insert"
    /\ staged[1].chunk = ArrayFill(extent_for_chunk_at_key(staged[1].chunk_key),
                                   NumVoxelTypes - 1)
    /\ staged[2].op = "edit"
    /\ staged[2].edit_func = "increment"
    /\ staged[1].chunk_key \notin DOMAIN voxel_map.chunks
    /\ staged[1].chunk_key \notin DOMAIN edit_buffer.copies
    /\ \E p \in ExtentPoints(staged[2].extent) :
          /\ chunk_key_containing_point(p) = staged[1].chunk_key
          /\ edit_buffer.edited_voxels[staged[1].chunk_key][p]
                = ApplyEditFunc("increment", p, NumVoxelTypes - 1)
          /\ edit_buffer.edited_voxels[staged[1].chunk_key][p]
                # ApplyEditFunc("increment", p, AmbientValue)

\* C16: materializing a chunk into the edit buffer has no caching side
\* effect.  A step that stages an edit_extent call leaves the shared store
\* as it was (a chunk that was compressed stays compressed, the LRU order is
\* kept) and leaves the chunks held by every thread-local cache as they were.
C16_NoCachingSideEffect ==
    [][(Len(staged') = Len(staged) + 1 /\ staged'[Len(staged')].op = "edit") =>
          /\ voxel_map' = voxel_map
          /\ \A w \in Workers : local_caches'[w] = local_caches[w]
      ]_vars

\* The buffer holds an edited copy of a chunk that the store holds compressed
\* and that no thread-local cache holds.
C16_Witness ==
    /\ stage = 0
    /\ \E k \in DOMAIN edit_buffer.copies :
          /\ k \in voxel_map.compressed
          /\ k \notin SeqRange(voxel_map.lru)
          /\ edit_buffer.edited_voxels[k] # voxel_map.chunks[k]
          /\ \A w \in Workers : k \notin DOMAIN local_caches[w].store

\* The chunk at key k is, at every point, what the calls staged in this frame
\* make of the store as the frame found it: no direct write made while the
\* edit buffer or a thread-local cache held the chunk shows.
DirectWritesLost(k) ==
    \A p \in ChunkPoints(k) :
        GetVoxel(voxel_map.chunks, p) = Replay(staged, bypass.base, p)

\* C17 as claimed: when the frame is over, every chunk that was written
\* directly while the edit buffer held it or while a thread-local cache held
\* it shows nothing of the direct write.
C17_AsClaimed ==
    FrameOver => \A k \in bypass.buffered \cup bypass.cached : DirectWritesLost(k)

\* C17: bypassing the buffer loses writes.  When the frame is over, a chunk
\* shows nothing of the direct writes made while the edit buffer held it or
\* while a thread-local cache held it, unless the edit buffer copied the
\* chunk after a direct write made while only a thread-local cache held it.
C17_BypassLosesWrites ==
    FrameOver =>
        \A k \in (bypass.buffered \cup bypass.cached) \ bypass.recopied :
            DirectWritesLost(k)

\* The frame is over; in it a voxel was written directly in a chunk that a
\* thread-local cache held, the flush has put the cache's copy back, and the
\* editor was used as well.
C17_Witness ==
    /\ FrameOver
    /\ bypass.buffered = {}
    /\ (bypass.cached \ bypass.recopied) \cap flushed_keys # {}
    /\ staged # <<>>

\* C18: the published report is well formed.  In every DirtyChunks value of
\* a run, whatever edit_extent and insert_chunk calls, with or without
\* touch_neighbors, went into the merge that produced it, every key of
\* edited_chunk_keys is in dirty_chunk_keys and edited_chunk_keys lists no
\* key twice.
C18_EditedWithinDirty ==
    /\ SeqRange(dirty_chunks.edited_chunk_keys) \subseteq dirty_chunks.dirty_chunk_keys
    /\ \A i, j \in 1..Len(dirty_chunks.edited_chunk_keys) :
          dirty_chunks.edited_chunk_keys[i] = dirty_chunks.edited_chunk_keys[j] => i = j

\* A merge has published the report of a frame in which insert_chunk and
\* edit_extent were both called, with different touch_neighbors settings, on
\* overlapping keys, and the report lists two edited keys.
C18_Witness ==
    /\ AfterMerge
    /\ Len(staged) = 2
    /\ staged[1].op = "insert"
    /\ staged[2].op = "edit"
    /\ staged[1].touch_neighbors # staged[2].touch_neighbors
    /\ staged[1].chunk_key \in CallKeys(staged[2])
    /\ Len(dirty_chunks.edited_chunk_keys) = 2

\* The points of the extents edited by the edit_extent calls of the log.
EditedPoints(log) ==
    UNION {ExtentPoints(log[i].extent) : i \in {j \in 1..Len(log) : log[j].op = "edit"}}

\* C19: a merge preserves the untouched voxels of edited chunks.  After the
\* merge of a frame that used only edit_extent, every voxel of an edited
\* chunk that lies outside every edited extent of the frame has the value the
\* store held for it before the frame (the default value where the store
\* held no chunk).
C19_UntouchedVoxelsKept ==
    (AfterMerge /\ \A i \in 1..Len(staged) : staged[i].op = "edit") =>
        \A k \in EditedKeys(staged) :
            \A p \in ChunkPoints(k) \ EditedPoints(staged) :
                /\ k \in DOMAIN voxel_map.chunks
                /\ voxel_map.chunks[k][p] = GetVoxel(before_merge, p)

\* The merge has installed an edited chunk whose untouched voxels are not the
\* default value: they are the ones the store held before the frame.
C19_Witness ==
    /\ AfterMerge
    /\ staged # <<>>
    /\ \A i \in 1..Len(staged) : staged[i].op = "edit"
    /\ \E k \in EditedKeys(staged) :
          \E p \in ChunkPoints(k) \ EditedPoints(staged) :
              /\ k \in DOMAIN voxel_map.chunks
              /\ voxel_map.chunks[k][p] # AmbientValue
              /\ voxel_map.chunks[k][p] = GetVoxel(before_merge, p)

\* C20: the chunk-shape assertion of edit_voxels_out_of_place always holds:
\* in every state the assertion has not failed, that is, no edit_extent call
\* has found the edit buffer's chunk shape different from the chunk shape of
\* the store being read.
C20_ShapeAssertionHolds == ~assert_failed
====
